---- MODULE Spec2Model ----
(***************************************************************************)
(* Model of mocap_cutter.py: create_alternating_video and the helpers it   *)
(* calls.  Times are integers counting twentieths of a second (0.05 s), so *)
(* that glitch_duration (0.3 s), the 2 s tail, the 0.5 .. 1.5 s segment    *)
(* draws and duration / 2 are all exact.                                   *)
(***************************************************************************)
EXTENDS Integers, Sequences, FiniteSets, TLC

VARIABLES
    pc,            \* position in create_alternating_video
    seed,          \* the seed argument: [given, value]
    message,       \* the message argument: [given, text]
    rngSeeded,     \* TRUE when random.seed(seed) fixed the generator state
    rng,           \* state of the process-wide generator (when rngSeeded)
    ndraws,        \* number of values drawn from the generator so far
    duration,      \* get_duration(modified_path)
    segments,      \* the plan: sequence of (start, end, video_type, is_glitch)
    current,       \* loop cursor
    last_type,     \* source of the previous loop iteration
    tmpdirExists,  \* the TemporaryDirectory exists
    tmpFiles,      \* files inside the temporary directory
    part_files,    \* clip list built by the render loop
    renderLog,     \* encoder invocations, in call order
    concatLog,     \* concatenator invocations (the clip list passed), in order
    outputWritten, \* the concatenator produced output_path
    summary,       \* lines printed by the final print
    run,           \* 1 for the first invocation, 2 for a repeated one
    firstPlan,     \* plan of the first invocation (kept for the repeated one)
    firstRng,      \* generator state after the first invocation's planning
    firstNdraws    \* number of draws of the first invocation

vars == <<pc, seed, message, rngSeeded, rng, ndraws, duration, segments, current,
          last_type, tmpdirExists, tmpFiles, part_files, renderLog, concatLog,
          outputWritten, summary, run, firstPlan, firstRng, firstNdraws>>

planVars   == <<rngSeeded, rng, ndraws, duration, segments, current, last_type>>
renderVars == <<tmpdirExists, tmpFiles, part_files, renderLog, concatLog,
                outputWritten, summary>>
runVars    == <<run, firstPlan, firstRng, firstNdraws>>

----------------------------------------------------------------------------
(* Bounds of the model *)

\* largest probed duration is 2 * MaxHalf ticks
MaxHalf == 70
\* seeds 0 .. MaxSeed
MaxSeed == 3

(* Program constants, in ticks of 0.05 s *)

glitch_duration == 6
TailLength == 40
MinSegDuration == 10
MaxSegDuration == 30
TextCardDuration == 40
\* random.random() < 0.7, with random() modelled in tenths
FaceswapThreshold == 7

Min(a, b) == IF a < b THEN a ELSE b

----------------------------------------------------------------------------
(* Arguments *)

Seeds == {[given |-> FALSE, value |-> 0]} \cup
         {[given |-> TRUE, value |-> v] : v \in 0..MaxSeed}

Messages == {[given |-> FALSE, text |-> ""],
             [given |-> TRUE, text |-> ""],
             [given |-> TRUE, text |-> "thanks"]}

\* `if seed:` in place of `if seed is not None:` (seed 0 leaves the generator unseeded)
SeedGiven_Truthy(s) == s.given /\ s.value # 0

\* `seed is not None`
SeedGiven(s) == s.given

\* truthiness of message in `if message:`
MessageTruthy(m) == m.given /\ m.text # ""

----------------------------------------------------------------------------
(* The random generator.  A seeded generator is a deterministic function   *)
(* of its state; an unseeded one starts from operating-system entropy, so  *)
(* each of its draws may be any value of the range.                        *)

SeedState(v) == (v * 37 + 11) % 128

Advance(r) == (r * 5 + 3) % 128

\* random.uniform(0.5, 1.5)
UniformDraws(seeded, r) ==
    IF seeded
    THEN {MinSegDuration + ((r \div 2) % (MaxSegDuration - MinSegDuration + 1))}
    ELSE MinSegDuration..MaxSegDuration

\* random.random(), in tenths
RandomDraws(seeded, r) ==
    IF seeded THEN {(r \div 3) % 10} ELSE 0..9

----------------------------------------------------------------------------
(* Planner *)

Halfway(d) == d \div 2

EndOriginalStart(d) == d - TailLength

Segment(s, e, t, g) == [start |-> s, end |-> e, video_type |-> t, is_glitch |-> g]

\* lines 96-113, for a probed duration d
Begin(d) ==
    /\ rngSeeded' = SeedGiven(seed)
    /\ rng' = IF SeedGiven(seed) THEN SeedState(seed.value) ELSE 0
    /\ ndraws' = 0
    /\ duration' = d
    /\ segments' = <<Segment(0, Halfway(d), "faceswap", FALSE)>>
    /\ current' = Halfway(d)
    /\ last_type' = "faceswap"
    /\ pc' = "loop"

Init ==
    /\ pc = "start"
    /\ seed \in Seeds
    /\ message \in Messages
    /\ rngSeeded = FALSE
    /\ rng = 0
    /\ ndraws = 0
    /\ duration = 0
    /\ segments = <<>>
    /\ current = 0
    /\ last_type = "faceswap"
    /\ tmpdirExists = FALSE
    /\ tmpFiles = {}
    /\ part_files = <<>>
    /\ renderLog = <<>>
    /\ concatLog = <<>>
    /\ outputWritten = FALSE
    /\ summary = <<>>
    /\ run = 1
    /\ firstPlan = <<>>
    /\ firstRng = 0
    /\ firstNdraws = 0

\* get_duration returns a number: any duration the prober can report
Probe ==
    /\ pc = "start"
    /\ \E h \in 0..MaxHalf : Begin(2 * h)
    /\ UNCHANGED <<seed, message>>
    /\ UNCHANGED renderVars
    /\ UNCHANGED runVars

\* ffprobe printed nothing parseable: float() raises before any planning
ProbeFail ==
    /\ pc = "start"
    /\ pc' = "failed"
    /\ UNCHANGED <<seed, message>>
    /\ UNCHANGED planVars
    /\ UNCHANGED renderVars
    /\ UNCHANGED runVars

\* line 124 without `video_type != last_type`: a glitch whenever there is room
IterSegments_AlwaysGlitch(cur, seg_end, video_type, last) ==
    LET glitch == cur + glitch_duration < seg_end
        cur2   == IF glitch THEN cur + glitch_duration ELSE cur
    IN  (IF glitch
         THEN <<Segment(cur, cur + glitch_duration, video_type, TRUE)>>
         ELSE <<>>)
        \o
        (IF cur2 < seg_end
         THEN <<Segment(cur2, seg_end, video_type, FALSE)>>
         ELSE <<>>)

\* segments appended by one loop iteration (lines 123-131)
IterSegments(cur, seg_end, video_type, last) ==
    LET glitch == video_type # last /\ cur + glitch_duration < seg_end
        cur2   == IF glitch THEN cur + glitch_duration ELSE cur
    IN  (IF glitch
         THEN <<Segment(cur, cur + glitch_duration, video_type, TRUE)>>
         ELSE <<>>)
        \o
        (IF cur2 < seg_end
         THEN <<Segment(cur2, seg_end, video_type, FALSE)>>
         ELSE <<>>)

\* random.random() < 0.7 picks faceswap
VideoType(u) == IF u < FaceswapThreshold THEN "faceswap" ELSE "original"

\* one iteration of the while loop, lines 115-134
LoopIter ==
    /\ pc = "loop"
    /\ current < EndOriginalStart(duration)
    /\ \E seg_duration \in UniformDraws(rngSeeded, rng) :
       \E u \in RandomDraws(rngSeeded, Advance(rng)) :
          LET seg_end    == Min(current + seg_duration, EndOriginalStart(duration))
              video_type == VideoType(u)
          IN  /\ segments' = segments \o
                             IterSegments(current, seg_end, video_type, last_type)
              /\ current' = seg_end
              /\ last_type' = video_type
    /\ rng' = IF rngSeeded THEN Advance(Advance(rng)) ELSE rng
    /\ ndraws' = ndraws + 2
    /\ UNCHANGED <<pc, seed, message, rngSeeded, duration>>
    /\ UNCHANGED renderVars
    /\ UNCHANGED runVars

\* lines 138-141 tagging the tail with the loop's last source instead of 'original'
TailSegments_KeepLast(d) ==
    IF EndOriginalStart(d) + glitch_duration < d
    THEN <<Segment(EndOriginalStart(d), EndOriginalStart(d) + glitch_duration,
                   last_type, TRUE),
           Segment(EndOriginalStart(d) + glitch_duration, d, last_type, FALSE)>>
    ELSE <<Segment(EndOriginalStart(d), d, last_type, FALSE)>>

\* segments appended after the loop, lines 136-141
TailSegments(d) ==
    IF EndOriginalStart(d) + glitch_duration < d
    THEN <<Segment(EndOriginalStart(d), EndOriginalStart(d) + glitch_duration,
                   "original", TRUE),
           Segment(EndOriginalStart(d) + glitch_duration, d, "original", FALSE)>>
    ELSE <<Segment(EndOriginalStart(d), d, "original", FALSE)>>

\* loop exit, the tail, and entry of the TemporaryDirectory block (lines 136-144)
PhaseC ==
    /\ pc = "loop"
    /\ ~(current < EndOriginalStart(duration))
    /\ segments' = segments \o TailSegments(duration)
    /\ tmpdirExists' = TRUE
    /\ tmpFiles' = {}
    /\ part_files' = <<>>
    /\ pc' = "render"
    /\ UNCHANGED <<seed, message, rngSeeded, rng, ndraws, duration, current, last_type>>
    /\ UNCHANGED <<renderLog, concatLog, outputWritten, summary>>
    /\ UNCHANGED runVars

----------------------------------------------------------------------------
(* Renderer, text card, concatenator *)

\* line 148: the file a source tag selects
InputFile(video_type) ==
    IF video_type = "faceswap" THEN "modified_path" ELSE "original_path"

PartFile(i) == <<"part", i>>
TextCardImage == <<"text_card.png", 0>>
TextCardFile == <<"text_card.mp4", 0>>

\* create_normal_segment: one input, seek to start, keep duration, the
\* input's own audio
NormalRequest(input_file, start, dur, output_file, ok) ==
    [kind |-> "normal", inputs |-> <<input_file>>, ss |-> start, t |-> dur,
     audio |-> input_file, out |-> output_file, ok |-> ok]

\* create_glitch_segment: both inputs over the same window, blended video,
\* audio mapped from input 1 ("-map 1:a"), which is modified_path
GlitchRequest(original_path, modified_path, start, dur, output_file, ok) ==
    [kind |-> "glitch", inputs |-> <<original_path, modified_path>>,
     ss |-> start, t |-> dur,
     audio |-> <<original_path, modified_path>>[2], out |-> output_file, ok |-> ok]

\* body of the render loop, lines 147-154
SegmentRequest(i, ok) ==
    LET seg          == segments[i + 1]
        input_file   == InputFile(seg.video_type)
        seg_duration == seg.end - seg.start
    IN  IF seg.is_glitch
        THEN GlitchRequest("original_path", "modified_path", seg.start,
                           seg_duration, PartFile(i), ok)
        ELSE NormalRequest(input_file, seg.start, seg_duration, PartFile(i), ok)

\* create_text_card: ImageMagick draws the caption, ffmpeg turns it into a clip
ConvertRequest(ok) ==
    [kind |-> "convert", inputs |-> <<>>, ss |-> 0, t |-> 0,
     audio |-> "none", out |-> TextCardImage, ok |-> ok]

TextCardRequest(dur, ok) ==
    [kind |-> "text_card", inputs |-> <<"text_card.png">>, ss |-> 0, t |-> dur,
     audio |-> "anullsrc", out |-> TextCardFile, ok |-> ok]

\* an exception leaves the `with` block: the directory and its files go away
Cleanup ==
    /\ tmpdirExists' = FALSE
    /\ tmpFiles' = {}

\* lines 146-156, the encoder succeeds
RenderSegmentOK ==
    /\ pc = "render"
    /\ Len(part_files) < Len(segments)
    /\ LET i == Len(part_files)
       IN  /\ renderLog' = Append(renderLog, SegmentRequest(i, TRUE))
           /\ tmpFiles' = tmpFiles \cup {PartFile(i)}
           /\ part_files' = Append(part_files, PartFile(i))
    /\ UNCHANGED <<pc, seed, message, tmpdirExists, concatLog, outputWritten, summary>>
    /\ UNCHANGED planVars
    /\ UNCHANGED runVars

\* subprocess.run without check=True: the failure is ignored and the loop goes on
RenderSegmentFail_Unchecked ==
    /\ pc = "render"
    /\ Len(part_files) < Len(segments)
    /\ renderLog' = Append(renderLog, SegmentRequest(Len(part_files), FALSE))
    /\ part_files' = Append(part_files, PartFile(Len(part_files)))
    /\ UNCHANGED <<pc, seed, message, tmpdirExists, tmpFiles, concatLog,
                   outputWritten, summary>>
    /\ UNCHANGED planVars
    /\ UNCHANGED runVars

\* lines 146-156, the encoder fails: check=True raises CalledProcessError
RenderSegmentFail ==
    /\ pc = "render"
    /\ Len(part_files) < Len(segments)
    /\ renderLog' = Append(renderLog, SegmentRequest(Len(part_files), FALSE))
    /\ Cleanup
    /\ pc' = "failed"
    /\ UNCHANGED <<seed, message, part_files, concatLog, outputWritten, summary>>
    /\ UNCHANGED planVars
    /\ UNCHANGED runVars

\* lines 159-162 with the card inserted at the front of part_files
TextCardOK_First ==
    /\ pc = "render"
    /\ Len(part_files) = Len(segments)
    /\ MessageTruthy(message)
    /\ renderLog' = renderLog \o
                    <<ConvertRequest(TRUE), TextCardRequest(TextCardDuration, TRUE)>>
    /\ tmpFiles' = tmpFiles \cup {TextCardImage, TextCardFile}
    /\ part_files' = <<TextCardFile>> \o part_files
    /\ pc' = "concat"
    /\ UNCHANGED <<seed, message, tmpdirExists, concatLog, outputWritten, summary>>
    /\ UNCHANGED planVars
    /\ UNCHANGED runVars

\* lines 159-162, both tools succeed
TextCardOK ==
    /\ pc = "render"
    /\ Len(part_files) = Len(segments)
    /\ MessageTruthy(message)
    /\ renderLog' = renderLog \o
                    <<ConvertRequest(TRUE), TextCardRequest(TextCardDuration, TRUE)>>
    /\ tmpFiles' = tmpFiles \cup {TextCardImage, TextCardFile}
    /\ part_files' = Append(part_files, TextCardFile)
    /\ pc' = "concat"
    /\ UNCHANGED <<seed, message, tmpdirExists, concatLog, outputWritten, summary>>
    /\ UNCHANGED planVars
    /\ UNCHANGED runVars

\* lines 159-162, convert fails, or convert succeeds and ffmpeg fails
TextCardFail ==
    /\ pc = "render"
    /\ Len(part_files) = Len(segments)
    /\ MessageTruthy(message)
    /\ \/ renderLog' = Append(renderLog, ConvertRequest(FALSE))
       \/ renderLog' = renderLog \o
                       <<ConvertRequest(TRUE), TextCardRequest(TextCardDuration, FALSE)>>
    /\ Cleanup
    /\ pc' = "failed"
    /\ UNCHANGED <<seed, message, part_files, concatLog, outputWritten, summary>>
    /\ UNCHANGED planVars
    /\ UNCHANGED runVars

\* line 159 with a falsy message: nothing is appended
NoTextCard ==
    /\ pc = "render"
    /\ Len(part_files) = Len(segments)
    /\ ~MessageTruthy(message)
    /\ pc' = "concat"
    /\ UNCHANGED <<seed, message>>
    /\ UNCHANGED planVars
    /\ UNCHANGED renderVars
    /\ UNCHANGED runVars

\* lines 165-176, the join succeeds; leaving the block removes the directory
ConcatOK ==
    /\ pc = "concat"
    /\ concatLog' = Append(concatLog, part_files)
    /\ outputWritten' = TRUE
    /\ Cleanup
    /\ pc' = "summary"
    /\ UNCHANGED <<seed, message, part_files, renderLog, summary>>
    /\ UNCHANGED planVars
    /\ UNCHANGED runVars

\* lines 165-176, the join fails; ffmpeg may or may not have left a file
ConcatFail ==
    /\ pc = "concat"
    /\ concatLog' = Append(concatLog, part_files)
    /\ outputWritten' \in BOOLEAN
    /\ Cleanup
    /\ pc' = "failed"
    /\ UNCHANGED <<seed, message, part_files, renderLog, summary>>
    /\ UNCHANGED planVars
    /\ UNCHANGED runVars

GlitchCount(segs) == Cardinality({i \in 1..Len(segs) : segs[i].is_glitch})

\* lines 178-179
PrintSummary ==
    /\ pc = "summary"
    /\ summary' = Append(summary, [n |-> Len(segments), k |-> GlitchCount(segments)])
    /\ pc' = "done"
    /\ UNCHANGED <<seed, message, tmpdirExists, tmpFiles, part_files, renderLog,
                   concatLog, outputWritten>>
    /\ UNCHANGED planVars
    /\ UNCHANGED runVars

Next ==
    \/ Probe
    \/ ProbeFail
    \/ LoopIter
    \/ PhaseC
    \/ RenderSegmentOK
    \/ RenderSegmentFail
    \/ TextCardOK
    \/ TextCardFail
    \/ NoTextCard
    \/ ConcatOK
    \/ ConcatFail
    \/ PrintSummary

Spec == Init /\ [][Next]_vars

----------------------------------------------------------------------------
(* A repeated invocation with the same files and the same seed *)

\* main() run again: same modified_path, hence the same probed duration
SecondRun ==
    /\ pc = "render"
    /\ renderLog = <<>>
    /\ run = 1
    /\ seed.given
    /\ run' = 2
    /\ firstPlan' = segments
    /\ firstRng' = rng
    /\ firstNdraws' = ndraws
    /\ Begin(duration)
    /\ Cleanup
    /\ UNCHANGED <<seed, message, part_files, renderLog, concatLog,
                   outputWritten, summary>>

NextDet ==
    \/ Probe
    \/ LoopIter
    \/ PhaseC
    \/ SecondRun

SpecDet == Init /\ [][NextDet]_vars

----------------------------------------------------------------------------
(* Properties *)

\* the plan is complete (the tail has been appended)
Planned == pc \in {"render", "concat", "summary", "done"}

Glitches(segs) == {i \in 1..Len(segs) : segs[i].is_glitch}

\* index of the last segment that is not a transition (0 when there is none)
LastNormalIndex(segs) ==
    IF \A i \in 1..Len(segs) : segs[i].is_glitch
    THEN 0
    ELSE CHOOSE i \in 1..Len(segs) :
            /\ ~segs[i].is_glitch
            /\ \A j \in (i + 1)..Len(segs) : segs[j].is_glitch

NormalCount(segs) == Cardinality({i \in 1..Len(segs) : ~segs[i].is_glitch})

\* C1: for every probed duration > 0 and every sequence of draws, the plan's
\* segments taken in order are contiguous and cover [0, duration]: the first
\* starts at 0, each later one starts where the previous one ends, and the
\* last one ends at duration.
C1_ContiguousCover ==
    (Planned /\ duration > 0) =>
        /\ segments[1].start = 0
        /\ \A i \in 2..Len(segments) : segments[i].start = segments[i - 1].end
        /\ segments[Len(segments)].end = duration

\* C2 as stated: every transition has length glitch_duration, and every
\* transition, in the loop or before the tail, sits between a non-transition
\* segment and a following segment of a different source.
C2_TransitionsOnlyOnSwitch ==
    Planned =>
        \A i \in Glitches(segments) :
            /\ segments[i].end - segments[i].start = glitch_duration
            /\ i > 1
            /\ i < Len(segments)
            /\ ~segments[i - 1].is_glitch
            /\ segments[i - 1].video_type # segments[i + 1].video_type

\* C2 amended: every transition has length glitch_duration; a transition
\* emitted by the loop sits between two non-transition segments of different
\* sources and carries the source of the segment that follows it; the
\* transition before the tail is emitted whenever it fits, whatever the source
\* of the segment before it.
C2_LoopTransitionsOnlyOnSwitch ==
    /\ pc \in {"loop"} \cup {"render", "concat", "summary", "done"} =>
          \A i \in Glitches(segments) :
              /\ segments[i].end - segments[i].start = glitch_duration
              /\ i > 1
              /\ i < Len(segments)
              /\ ~segments[i - 1].is_glitch
              /\ ~segments[i + 1].is_glitch
              /\ segments[i].video_type = segments[i + 1].video_type
              /\ (pc = "loop" \/ i < Len(segments) - 1) =>
                     segments[i - 1].video_type # segments[i + 1].video_type
    /\ Planned =>
          /\ Len(segments) >= 3
          /\ segments[Len(segments) - 1].is_glitch
          /\ segments[Len(segments) - 1].start = EndOriginalStart(duration)

\* C2 witness: a plan with a loop transition between different sources and a
\* tail transition that follows an 'original' segment
C2_Witness ==
    /\ Planned
    /\ \E i \in Glitches(segments) : i < Len(segments) - 1
    /\ Len(segments) >= 4
    /\ segments[Len(segments) - 2].video_type = "original"
    /\ ~segments[Len(segments) - 2].is_glitch

\* C3: every segment of every plan for a duration > 0 satisfies
\* 0 <= start < end <= duration, also when duration <= 2 s.
C3_SegmentBounds ==
    (Planned /\ duration > 0) =>
        \A i \in 1..Len(segments) :
            /\ 0 <= segments[i].start
            /\ segments[i].start < segments[i].end
            /\ segments[i].end <= duration

\* C4: a probed duration <= 0 fails the run: no plan, no render request, no
\* concatenator call.
C4_InvalidDuration ==
    (pc # "start" /\ duration <= 0) =>
        /\ pc = "failed"
        /\ segments = <<>>
        /\ renderLog = <<>>
        /\ concatLog = <<>>

\* C5: a repeated invocation with the same duration and the same seed
\* (0 included) draws the same values in the same order, two per loop
\* iteration, and builds the same plan segment for segment.
C5_Deterministic ==
    /\ (run = 2 /\ pc = "loop") =>
          /\ Len(segments) <= Len(firstPlan)
          /\ segments = SubSeq(firstPlan, 1, Len(segments))
          /\ ndraws <= firstNdraws
    /\ (run = 2 /\ pc = "render") =>
          /\ segments = firstPlan
          /\ ndraws = firstNdraws
          /\ rng = firstRng
          /\ ndraws = 2 * (NormalCount(segments) - 2)

\* C5 witness: a repeated run under seed 0 whose loop ran at least twice
C5_Witness ==
    /\ run = 2
    /\ pc = "render"
    /\ seed.value = 0
    /\ ndraws >= 4
    /\ duration > 2 * TailLength

\* C6: in every plan the last non-transition segment has source 'original'
\* and ends at duration, whatever the loop drew.
C6_LastIsOriginal ==
    Planned =>
        /\ LastNormalIndex(segments) > 0
        /\ segments[LastNormalIndex(segments)].video_type = "original"
        /\ segments[LastNormalIndex(segments)].end = duration

\* C6 witness: a plan whose loop ended on a 'faceswap' draw
C6_Witness ==
    /\ Planned
    /\ ndraws >= 2
    /\ last_type = "faceswap"
    /\ segments[Len(segments) - 2].video_type = "faceswap"

\* C7: every transition's render request decodes both files over the
\* segment's window and takes its audio from the file of the transition's tag.
C7_GlitchAudioMatchesTag ==
    \A i \in 1..Len(renderLog) :
        (renderLog[i].kind = "glitch") =>
            /\ renderLog[i].inputs = <<"original_path", "modified_path">>
            /\ renderLog[i].ss = segments[i].start
            /\ renderLog[i].t = segments[i].end - segments[i].start
            /\ renderLog[i].audio = InputFile(segments[i].video_type)

\* C8: once an encoder call has failed, it is the last call ever made: no
\* further render, no retry, no concatenation, no output file, no summary, and
\* the temporary directory with its clips is gone.
C8_RenderFailureIsFatal ==
    \A i \in 1..Len(renderLog) :
        (~renderLog[i].ok) =>
            /\ i = Len(renderLog)
            /\ pc = "failed"
            /\ concatLog = <<>>
            /\ ~outputWritten
            /\ summary = <<>>
            /\ ~tmpdirExists
            /\ tmpFiles = {}

\* C8 witness: a segment render failed after earlier clips had been written
C8_Witness ==
    /\ pc = "failed"
    /\ Len(renderLog) >= 3
    /\ ~renderLog[Len(renderLog)].ok
    /\ renderLog[Len(renderLog)].kind \in {"normal", "glitch"}
    /\ Len(part_files) = Len(renderLog) - 1

\* the render calls made for plan segments
SegmentCalls == SelectSeq(renderLog, LAMBDA r : r.kind \in {"normal", "glitch"})

\* a message was requested: -m with a non-empty text
MessageRequested == message.given /\ message.text # ""

\* C9: on a successful run every plan segment was rendered exactly once, in
\* plan order; the concatenator ran once, after all renders, on exactly those
\* clips in plan order followed by the text card iff a message was requested;
\* and no render call is made while the plan is still being built or after
\* the concatenator ran.
C9_RenderThenConcatInPlanOrder ==
    /\ (pc \in {"summary", "done"}) =>
          /\ Len(SegmentCalls) = Len(segments)
          /\ \A i \in 1..Len(segments) :
                /\ SegmentCalls[i].ss = segments[i].start
                /\ SegmentCalls[i].t = segments[i].end - segments[i].start
                /\ (SegmentCalls[i].kind = "glitch") = segments[i].is_glitch
                /\ SegmentCalls[i].out = PartFile(i - 1)
                /\ renderLog[i] = SegmentCalls[i]
          /\ Len(concatLog) = 1
          /\ concatLog[1] = [i \in 1..Len(segments) |-> PartFile(i - 1)] \o
                            (IF MessageRequested THEN <<TextCardFile>> ELSE <<>>)
    /\ (renderLog # <<>>) => pc \notin {"start", "loop"}
    /\ (concatLog # <<>>) =>
          /\ Len(concatLog) = 1
          /\ Len(SegmentCalls) = Len(segments)
          /\ \A i \in 1..Len(renderLog) : renderLog[i].ok

\* C9 witness: a finished run with a text card and a loop transition
C9_Witness ==
    /\ pc = "done"
    /\ MessageRequested
    /\ Len(segments) >= 5
    /\ Len(concatLog[1]) = Len(segments) + 1

\* C10: the loop cursor never exceeds duration - 2 s while planning, and when
\* the loop has run at least once it exits with the cursor at duration - 2 s.
C10_CursorBounded ==
    /\ (pc = "loop") => current <= EndOriginalStart(duration)
    /\ (Planned /\ ndraws > 0) => current = EndOriginalStart(duration)

====
